---- MODULE Spec2Model ----
(***************************************************************************)
(* Model of src/estrai_meteo.py: the polling / extraction / aggregation /  *)
(* persistence loop of estrai_dati_meteo().                                *)
(*                                                                         *)
(* Text is a sequence of one-character strings, so that strip(), label     *)
(* construction and lexicographic sorting are computed, not assumed.       *)
(* A JSON value is a record [kind, n, s]: "null", "int" (n), "float" (n in *)
(* tenths), "str" (s).  The CSV file is the sequence of its rows, each a   *)
(* sequence of fields (what csv.writer wrote / csv.reader returns).        *)
(***************************************************************************)
EXTENDS Integers, Sequences, FiniteSets, TLC

(***************************** bounds **************************************)
\* Number of loop iterations explored before the model stops starting cycles.
MaxCycles == 3

\* Longest generated array of station records.
MaxRecords == 2

(**************************** text *****************************************)
\* The characters used, in code-point order (Python compares str by code point).
CodeOrder ==
    << " ", "(", ")", "-", ".", "/", "0", "1", "2", "3", "4", "5", "6", "7",
       "8", "9", ":", "A", "C", "D", "N", "O", "P", "T", "_", "a", "b", "c",
       "e", "g", "i", "m", "n", "o", "p", "r", "t" >>

Ord(c) == CHOOSE i \in 1..Len(CodeOrder) : CodeOrder[i] = c

Digits == << "0", "1", "2", "3", "4", "5", "6", "7", "8", "9" >>

IsDigit(c) == \E i \in 1..10 : Digits[i] = c

DigitVal(c) == (CHOOSE i \in 1..10 : Digits[i] = c) - 1

\* str < str in Python: lexicographic by code point, a proper prefix is smaller.
RECURSIVE LexLess(_, _)
LexLess(a, b) ==
    IF a = <<>> THEN b # <<>>
    ELSE IF b = <<>> THEN FALSE
    ELSE IF Head(a) = Head(b) THEN LexLess(Tail(a), Tail(b))
    ELSE Ord(Head(a)) < Ord(Head(b))

\* sorted(list(S)) for a set of str: the i-th element is the one with i - 1
\* smaller elements.
Sorted(S) ==
    [i \in 1..Cardinality(S) |->
        CHOOSE x \in S : Cardinality({y \in S : LexLess(y, x)}) = i - 1]

\* Index of the first character of s, from i on, that is not a blank.
RECURSIVE FirstNonBlank(_, _)
FirstNonBlank(s, i) ==
    IF i <= Len(s) /\ s[i] = " " THEN FirstNonBlank(s, i + 1) ELSE i

\* Index of the last character of s, up to j, that is not a blank.
RECURSIVE LastNonBlank(_, _)
LastNonBlank(s, j) ==
    IF j >= 1 /\ s[j] = " " THEN LastNonBlank(s, j - 1) ELSE j

\* str.strip()
Strip(s) == SubSeq(s, FirstNonBlank(s, 1), LastNonBlank(s, Len(s)))

\* Decimal digits of a natural number.
RECURSIVE NatStr(_)
NatStr(n) ==
    IF n < 10 THEN << Digits[n + 1] >>
    ELSE NatStr(n \div 10) \o << Digits[(n % 10) + 1] >>

Abs(n) == IF n < 0 THEN -n ELSE n

IntStr(n) == IF n < 0 THEN <<"-">> \o NatStr(-n) ELSE NatStr(n)

TwoDigits(n) == << Digits[(n \div 10) + 1], Digits[(n % 10) + 1] >>

(**************************** JSON values **********************************)
Null == [kind |-> "null", n |-> 0, s |-> <<>>]
JInt(i) == [kind |-> "int", n |-> i, s |-> <<>>]
\* A JSON number with a fractional part, held in tenths: JFloat(155) is 15.5.
JFloat(t) == [kind |-> "float", n |-> t, s |-> <<>>]
JStr(t) == [kind |-> "str", n |-> 0, s |-> t]

\* Python truthiness of a JSON value.
Truthy(v) ==
    CASE v.kind = "null" -> FALSE
      [] v.kind = "str" -> v.s # <<>>
      [] OTHER -> v.n # 0

\* str(value)
PyStr(v) ==
    CASE v.kind = "null" -> <<"N", "o", "n", "e">>
      [] v.kind = "str" -> v.s
      [] v.kind = "int" -> IntStr(v.n)
      [] OTHER ->
            (IF v.n < 0 THEN <<"-">> ELSE <<>>)
                \o NatStr(Abs(v.n) \div 10) \o <<".">> \o NatStr(Abs(v.n) % 10)

\* float(text) succeeds: optional surrounding blanks, an optional "-", digits with
\* at most one "." and at least one digit.  (Exponents, "inf", "nan", "+" and "_"
\* do not occur in the texts of the model.)
Unsigned(text) ==
    LET t == Strip(text) IN IF t # <<>> /\ Head(t) = "-" THEN Tail(t) ELSE t

FloatOk(text) ==
    LET u == Unsigned(text) IN
    /\ \E i \in 1..Len(u) : IsDigit(u[i])
    /\ \A i \in 1..Len(u) : IsDigit(u[i]) \/ u[i] = "."
    /\ Cardinality({i \in 1..Len(u) : u[i] = "."}) <= 1

\* Value of the first n digits of ds.
RECURSIVE DigitsValTo(_, _)
DigitsValTo(ds, n) ==
    IF n = 0 THEN 0 ELSE 10 * DigitsValTo(ds, n - 1) + DigitVal(ds[n])

DigitsVal(ds) == DigitsValTo(ds, Len(ds))

\* float(text), in thousandths (texts of the model have at most three
\* fractional digits).
FloatMilli(text) ==
    LET t == Strip(text)
        u == Unsigned(text)
        dots == {i \in 1..Len(u) : u[i] = "."}
        dot == IF dots = {} THEN Len(u) + 1 ELSE CHOOSE i \in dots : TRUE
        whole == SubSeq(u, 1, dot - 1)
        frac == SubSeq(u, dot + 1, Len(u))
        frac3 == SubSeq(frac \o <<"0", "0", "0">>, 1, 3)
        mag == 1000 * DigitsVal(whole) + DigitsVal(frac3)
    IN  IF t # <<>> /\ Head(t) = "-" THEN -mag ELSE mag

RECURSIVE SumSeq(_)
SumSeq(q) == IF q = <<>> THEN 0 ELSE Head(q) + SumSeq(Tail(q))

\* Nearest integer to num/den (den > 0, num >= 0), ties to even.
RoundDiv(num, den) ==
    LET q == num \div den
        r == num % den
    IN  IF 2 * r < den THEN q
        ELSE IF 2 * r > den THEN q + 1
        ELSE IF q % 2 = 0 THEN q ELSE q + 1

\* f"{sum(numeric_values) / len(numeric_values):.2f}" for values in thousandths.
FormatMean(millis) ==
    LET total == SumSeq(millis)
        h == RoundDiv(Abs(total), 10 * Len(millis))
    IN  (IF total < 0 THEN <<"-">> ELSE <<>>)
            \o NatStr(h \div 100) \o <<".">> \o TwoDigits(h % 100)

(**************************** configuration ********************************)
\* Mutation of stazioni_interessate: the catalog in alphabetical order.
stazioni_interessate_Alfabetico ==
    << "Arcevia", "Barbara", "Misa", "Nevola", "Pianello di Ostra",
       "Serra dei Conti" >>

\* stazioni_interessate, in declaration order.
stazioni_interessate ==
    << "Misa", "Pianello di Ostra", "Nevola", "Barbara", "Serra dei Conti",
       "Arcevia" >>

StazioniSet == {stazioni_interessate[i] : i \in 1..Len(stazioni_interessate)}

sensori_interessati_tipoSens == {0, 1, 5, 6, 9, 10, 100}

Data_Ora == <<"D", "a", "t", "a", "_", "O", "r", "a">>

NA == <<"N", "/", "A">>

TimestampKey == <<"T", "i", "m", "e", "s", "t", "a", "m", "p">>

\* Minutes slept between two cycles: time.sleep(15 * 60).
SleepMinutes == 15

\* strftime('%d/%m/%Y %H:%M') of the instant m minutes after 01/01/2026 00:00
\* (m stays within January).
StrfTime(m) ==
    TwoDigits((m \div 1440) + 1) \o <<"/", "0", "1", "/", "2", "0", "2", "6", " ">>
        \o TwoDigits((m % 1440) \div 60) \o <<":">> \o TwoDigits(m % 60)

(**************************** extraction ***********************************)
\* Mutation of Put: a key that is already in the dict keeps its first value.
Put_PrimoVince(d, k, v) ==
    IF k \in DOMAIN d THEN d
    ELSE [x \in (DOMAIN d) \cup {k} |-> IF x = k THEN v ELSE d[x]]

\* d[k] = v on a dict held as a function.
Put(d, k, v) == [x \in (DOMAIN d) \cup {k} |-> IF x = k THEN v ELSE d[x]]

\* descr.strip() / unmis.strip() raise AttributeError on a value that is no str.
SensorRaises(sensore) ==
    \/ sensore.descr.kind # "str"
    \/ Truthy(sensore.unmis) /\ sensore.unmis.kind # "str"

\* chiave_sensore = f"{descr_sensore} ({unita_misura})"
ChiaveSensore(sensore) ==
    LET descr_sensore == Strip(sensore.descr.s)
        unita_misura == IF Truthy(sensore.unmis) THEN Strip(sensore.unmis.s) ELSE <<>>
    IN  descr_sensore \o <<" ", "(">> \o unita_misura \o <<")">>

\* Mutation of LeggiSensori: the test on tipoSens is missing, every reading
\* is recorded.
RECURSIVE LeggiSensori_SenzaFiltro(_, _, _)
LeggiSensori_SenzaFiltro(analog, dati, tipi) ==
    IF analog = <<>> THEN [err |-> FALSE, dati |-> dati, tipi |-> tipi]
    ELSE LET sensore == Head(analog) IN
         IF SensorRaises(sensore) THEN [err |-> TRUE, dati |-> dati, tipi |-> tipi]
         ELSE LeggiSensori_SenzaFiltro(Tail(analog),
                                       Put(dati, ChiaveSensore(sensore), sensore.valore),
                                       tipi \cup {ChiaveSensore(sensore)})

\* The loop over stazione["analog"]: [err, dati, tipi].
RECURSIVE LeggiSensori(_, _, _)
LeggiSensori(analog, dati, tipi) ==
    IF analog = <<>> THEN [err |-> FALSE, dati |-> dati, tipi |-> tipi]
    ELSE LET sensore == Head(analog) IN
         IF SensorRaises(sensore) THEN [err |-> TRUE, dati |-> dati, tipi |-> tipi]
         ELSE IF sensore.tipoSens \in sensori_interessati_tipoSens
              THEN LeggiSensori(Tail(analog),
                                Put(dati, ChiaveSensore(sensore), sensore.valore),
                                tipi \cup {ChiaveSensore(sensore)})
              ELSE LeggiSensori(Tail(analog), dati, tipi)

\* Mutation of TimestampFormattato: a time that cannot be parsed gives an
\* empty text instead of the poll time.
TimestampFormattato_Vuoto(stazione, ft) ==
    IF stazione.lastUpdateTime.kind = "iso"
    THEN StrfTime(stazione.lastUpdateTime.minutes)
    ELSE <<>>

\* timestamp_formattato: the parsed lastUpdateTime, or the poll time when
\* fromisoformat()/replace() raise ValueError/AttributeError.
TimestampFormattato(stazione, ft) ==
    IF stazione.lastUpdateTime.kind = "iso"
    THEN StrfTime(stazione.lastUpdateTime.minutes)
    ELSE ft

\* The loop over dati_meteo: [err, dps, tipi]; err when stazione.get raises
\* (an element that is no object) or a sensor raises.
RECURSIVE EstraiStazioni(_, _, _, _)
EstraiStazioni(dati, dps, tipi, ft) ==
    IF dati = <<>> THEN [err |-> FALSE, dps |-> dps, tipi |-> tipi]
    ELSE LET stazione == Head(dati) IN
         IF ~stazione.isObj THEN [err |-> TRUE, dps |-> dps, tipi |-> tipi]
         ELSE IF stazione.nome \in StazioniSet
         THEN LET start == [k \in {TimestampKey} |-> JStr(TimestampFormattato(stazione, ft))]
                  r == LeggiSensori(stazione.analog, start, tipi)
              IN  IF r.err THEN [err |-> TRUE, dps |-> dps, tipi |-> r.tipi]
                  ELSE EstraiStazioni(Tail(dati), Put(dps, stazione.nome, r.dati),
                                      r.tipi, ft)
         ELSE EstraiStazioni(Tail(dati), dps, tipi, ft)

EmptyDict == [k \in {} |-> Null]

(**************************** aggregation **********************************)
\* Mutation of NuovaIntestazione: the labels in descending order.
NuovaIntestazione_Decrescente(tipi) ==
    <<Data_Ora>> \o [i \in 1..Cardinality(tipi) |-> Sorted(tipi)[Cardinality(tipi) + 1 - i]]

\* nuova_intestazione = ['Data_Ora'] + sorted(tipi_sensori_presenti)
NuovaIntestazione(tipi) == <<Data_Ora>> \o Sorted(tipi)

\* values: str(value) of every catalog station, in catalog order, that is in
\* dati_per_stazione and whose value for the label is not 'N/A'.
RECURSIVE Values(_, _, _)
Values(sensore_header, dps, i) ==
    IF i > Len(stazioni_interessate) THEN <<>>
    ELSE LET nome_stazione == stazioni_interessate[i]
             value == IF sensore_header \in DOMAIN dps[nome_stazione]
                      THEN dps[nome_stazione][sensore_header]
                      ELSE JStr(NA)
         IN  (IF nome_stazione \in DOMAIN dps /\ value # JStr(NA)
              THEN << PyStr(value) >> ELSE <<>>)
                 \o Values(sensore_header, dps, i + 1)

\* Mutation of CellaDi: the sum is divided by the number of catalog stations.
CellaDi_DivisoreCatalogo(values) ==
    IF values # <<>>
    THEN IF \A i \in 1..Len(values) : FloatOk(values[i])
         THEN FormatMean([i \in 1..Len(stazioni_interessate) |->
                            IF i <= Len(values) THEN FloatMilli(values[i]) ELSE 0])
         ELSE values[1]
    ELSE NA

\* The cell made of the collected values: the mean when float() accepts them
\* all, else the first value (except ValueError), 'N/A' when there is none.
CellaDi(values) ==
    IF values # <<>>
    THEN IF \A i \in 1..Len(values) : FloatOk(values[i])
         THEN FormatMean([i \in 1..Len(values) |-> FloatMilli(values[i])])
         ELSE values[1]
    ELSE NA

\* One cell of riga_dati.
Cella(sensore_header, dps) == CellaDi(Values(sensore_header, dps, 1))

RigaDati(ft, intestazione, dps) ==
    <<ft>> \o [i \in 1..(Len(intestazione) - 1) |-> Cella(intestazione[i + 1], dps)]

(**************************** inputs ***************************************)
Sensore(tipoSens, descr, valore, unmis) ==
    [tipoSens |-> tipoSens, descr |-> descr, valore |-> valore, unmis |-> unmis]

Stazione(nome, lastUpdateTime, analog) ==
    [isObj |-> TRUE, nome |-> nome, lastUpdateTime |-> lastUpdateTime,
     analog |-> analog]

\* An element of the JSON array that is not an object (stazione.get raises).
NonOggetto ==
    [isObj |-> FALSE, nome |-> "", lastUpdateTime |-> [kind |-> "null", minutes |-> 0],
     analog |-> <<>>]

\* lastUpdateTime: an ISO-8601 text (the instant, in minutes after 01/01/2026
\* 00:00), null, a missing key (get returns None), a number, or a text that
\* fromisoformat refuses.
IsoTime(m) == [kind |-> "iso", minutes |-> m]
NoTime == [kind |-> "null", minutes |-> 0]
MissingTime == [kind |-> "missing", minutes |-> 0]
NumTime == [kind |-> "number", minutes |-> 0]
BadTime == [kind |-> "badstr", minutes |-> 0]

Temp == <<"T", "e", "m", "p">>
TempPad == <<" ", "T", "e", "m", "p", " ">>
Piog == <<"P", "i", "o", "g">>
GradiC == <<"C">>
Mm == <<"m", "m">>
TempC == <<"T", "e", "m", "p", " ", "(", "C", ")">>
PiogMm == <<"P", "i", "o", "g", " ", "(", "m", "m", ")">>

\* No station of the catalog.
SnapNoCatalog ==
    << Stazione("Roma", IsoTime(0), << Sensore(1, JStr(Temp), JFloat(120), JStr(GradiC)) >>) >>

\* One catalog station, one qualifying reading.
SnapMisa ==
    << Stazione("Misa", IsoTime(725), << Sensore(1, JStr(Temp), JFloat(155), JStr(GradiC)) >>) >>

\* Two catalog stations reporting the same label (15.5 and 17.5).
SnapMisaBarbara ==
    << Stazione("Roma", IsoTime(0), << Sensore(1, JStr(Temp), JFloat(120), JStr(GradiC)) >>),
       Stazione("Misa", BadTime, << Sensore(1, JStr(Temp), JFloat(155), JStr(GradiC)) >>),
       Stazione("Barbara", NoTime, << Sensore(1, JStr(TempPad), JFloat(175), JStr(GradiC)) >>) >>

\* Two labels: rainfall besides temperature.
SnapDueSensori ==
    << Stazione("Barbara", NumTime, << Sensore(1, JStr(Temp), JFloat(175), JStr(GradiC)) >>),
       Stazione("Misa", MissingTime,
                << Sensore(1, JStr(Temp), JFloat(155), JStr(GradiC)),
                   Sensore(0, JStr(Piog), JInt(2), JStr(Mm)),
                   Sensore(2, JStr(Piog), JInt(7), Null) >>) >>

\* A catalog station none of whose readings has a catalog type code.
SnapNessunSensore ==
    << Stazione("Misa", IsoTime(0), << Sensore(2, JStr(Temp), JFloat(155), JStr(GradiC)) >>) >>

\* A well-formed catalog station followed by an element that is no object.
SnapMalformato ==
    << Stazione("Misa", IsoTime(0), << Sensore(1, JStr(Temp), JFloat(155), JStr(GradiC)) >>),
       NonOggetto >>

\* Three catalog stations reporting 10.0, 20.0 and 30.0 for one label.
SnapTre ==
    << Stazione("Misa", IsoTime(0), << Sensore(1, JStr(Temp), JFloat(100), JStr(GradiC)) >>),
       Stazione("Nevola", IsoTime(0), << Sensore(1, JStr(Temp), JFloat(200), JStr(GradiC)) >>),
       Stazione("Barbara", IsoTime(0), << Sensore(1, JStr(Temp), JFloat(300), JStr(GradiC)) >>) >>

Abc == <<"a", "b", "c">>

\* Description "T (a)" with unit "b", and description "T" with unit "a) (b".
DescrTa == <<"T", " ", "(", "a", ")">>
UnitB == <<"b">>
DescrT == <<"T">>
UnitAB == <<"a", ")", " ", "(", "b">>

\* The lists of readings a station record holds in the generated snapshots:
\* none; 15.5; 17.5 under a padded description; a text; null; the text N/A;
\* two labels; a reading of a type outside the catalog before an integer
\* one; a qualifying reading without unit; a reading of a type outside the
\* catalog whose description is null; two readings with the same label; two
\* readings whose descriptions and units contain brackets.
Analogs ==
    { <<>>,
      << Sensore(1, JStr(Temp), JFloat(155), JStr(GradiC)) >>,
      << Sensore(1, JStr(TempPad), JFloat(175), JStr(GradiC)) >>,
      << Sensore(1, JStr(Temp), JStr(Abc), JStr(GradiC)) >>,
      << Sensore(1, JStr(Temp), Null, JStr(GradiC)) >>,
      << Sensore(1, JStr(Temp), JStr(NA), JStr(GradiC)) >>,
      << Sensore(1, JStr(Temp), JFloat(155), JStr(GradiC)),
         Sensore(0, JStr(Piog), JInt(2), JStr(Mm)) >>,
      << Sensore(2, JStr(Piog), JInt(7), Null),
         Sensore(1, JStr(Temp), JInt(10), JStr(GradiC)) >>,
      << Sensore(0, JStr(Piog), JInt(3), Null) >>,
      << Sensore(2, Null, JInt(7), JStr(Mm)) >>,
      << Sensore(1, JStr(Temp), JFloat(155), JStr(GradiC)),
         Sensore(1, JStr(TempPad), JFloat(175), JStr(GradiC)) >>,
      << Sensore(1, JStr(DescrTa), JInt(1), JStr(UnitB)),
         Sensore(1, JStr(DescrT), JInt(2), JStr(UnitAB)) >> }

\* Station names of the generated snapshots: two of the catalog (the first
\* and the fourth) and one outside it.
NomiCasi == {"Misa", "Barbara", "Roma"}

RecordCasi == {Stazione(n, NoTime, a) : n \in NomiCasi, a \in Analogs}

\* Arrays of at most n station records.
RECURSIVE ArrayFinoA(_)
ArrayFinoA(n) ==
    IF n = 0 THEN {<<>>}
    ELSE LET piu_corti == ArrayFinoA(n - 1) IN
         piu_corti \cup {Append(q, r) : q \in {x \in piu_corti : Len(x) = n - 1},
                                        r \in RecordCasi}

\* The arrays of station records response.json() returns in the model.
Snapshots ==
    { SnapNoCatalog, SnapMisa, SnapMisaBarbara, SnapDueSensori, SnapNessunSensore,
      SnapMalformato }

\* A JSON document as "for stazione in dati_meteo" sees it: an array yields its
\* elements, an object yields its keys (str, so stazione.get raises), a
\* scalar (null, a number, true) is not iterable.
Array(items) == [tipo |-> "array", items |-> items]

\* {"error": "..."}: one key.
CorpoOggetto == [tipo |-> "object", items |-> << NonOggetto >>]

\* null
CorpoScalare == [tipo |-> "scalar", items |-> <<>>]

\* The documents response.json() returns in the model.
Bodies == {Array(s) : s \in Snapshots} \cup {CorpoOggetto, CorpoScalare}

\* The documents of the runs that exercise one cycle's extraction and
\* aggregation.
Casi == {Array(q) : q \in ArrayFinoA(MaxRecords) \cup {SnapTre, SnapMisaBarbara}}

\* The file before the program starts: absent, empty, or left by an earlier run.
Absent == [exists |-> FALSE, leggibile |-> FALSE, rows |-> <<>>]

\* A file that can be opened and decoded, holding the given rows.
FileOf(rows) == [exists |-> TRUE, leggibile |-> TRUE, rows |-> rows]

\* A file that open(..., 'r') or the utf-8 decoding of its first line refuses.
Illeggibile(rows) == [exists |-> TRUE, leggibile |-> FALSE, rows |-> rows]

OldRow ==
    << <<"3", "1", "/", "1", "2", "/", "2", "0", "2", "5", " ", "2", "3", ":", "4", "5">>,
       <<"1", "4", ".", "0", "0">> >>

InitialDisks ==
    { Absent, FileOf(<<>>), FileOf(<< <<Data_Ora, TempC>>, OldRow >>),
      Illeggibile(<< <<Data_Ora, TempC>>, OldRow >>) }

\* Exit status of the interpreter on an uncaught KeyboardInterrupt (1 before
\* Python 3.8, death by SIGINT reported as 130 since).
UncaughtInterruptCodes == {1, 130}

(**************************** state ****************************************)
VARIABLES
    pc,                     \* position in estrai_dati_meteo()
    status,                 \* "running" | "exited"
    exit_code,              \* process exit status, -1 while running
    clock,                  \* wall clock, minutes after 01/01/2026 00:00
    disk,                   \* dati_meteo_stazioni.csv: [exists, rows]
    file_exists,
    intestazione_attuale,
    formatted_time,
    dati_meteo,
    dati_per_stazione,
    tipi_sensori_presenti,
    nuova_intestazione,
    headers_changed,
    riga_dati,
    prima,                  \* history: file and tracker when the iteration began
    cicli,                  \* history: iterations of "while True" begun
    fetches,                \* history: requests.get calls issued
    righe_iniziali,         \* history: data rows of the file at startup
    sovrascritto,           \* history: the file was opened with 'w' in this run
    scritti                 \* history: cycles that have written since then

vars ==
    << pc, status, exit_code, clock, disk, file_exists, intestazione_attuale,
       formatted_time, dati_meteo, dati_per_stazione, tipi_sensori_presenti,
       nuova_intestazione, headers_changed, riga_dati, prima, cicli, fetches,
       righe_iniziali, sovrascritto, scritti >>

tracker == << file_exists, intestazione_attuale >>

locals ==
    << formatted_time, dati_meteo, dati_per_stazione, tipi_sensori_presenti,
       nuova_intestazione, headers_changed, riga_dati >>

aggregated == << nuova_intestazione, headers_changed, riga_dati >>

extracted == << dati_per_stazione, tipi_sensori_presenti >>

proc == << status, exit_code >>

conteggi == << cicli, fetches >>

storia == << righe_iniziali, sovrascritto, scritti >>

\* Rows of the file below its first row.
DataRows(f) == IF f.rows = <<>> THEN 0 ELSE Len(f.rows) - 1

MaxClock == MaxCycles * SleepMinutes

InitWith(disks) ==
    /\ pc = "start"
    /\ status = "running"
    /\ exit_code = -1
    /\ clock = 0
    /\ disk \in disks
    /\ file_exists = FALSE
    /\ intestazione_attuale = <<>>
    /\ formatted_time = <<>>
    /\ dati_meteo = Array(<<>>)
    /\ dati_per_stazione = EmptyDict
    /\ tipi_sensori_presenti = {}
    /\ nuova_intestazione = <<>>
    /\ headers_changed = FALSE
    /\ riga_dati = <<>>
    /\ prima = [disk |-> Absent, file_exists |-> FALSE, intestazione_attuale |-> <<>>]
    /\ cicli = 0
    /\ fetches = 0
    /\ righe_iniziali = DataRows(disk)
    /\ sovrascritto = FALSE
    /\ scritti = 0

Init == InitWith(InitialDisks)

(**************************** the program **********************************)
At(p) == status = "running" /\ pc = p

\* Mutation of DopoErrore: the exception leaves the loop instead of being
\* swallowed by the except clause.
DopoErrore_Termina == "crashed"

\* Mutation of DopoErrore: a failed cycle is retried at once.
DopoErrore_Riprova == "fetch"

\* Where control resumes after an except clause of the inner try: the
\* statements that follow it (next_update, print, time.sleep).
DopoErrore == "wait"

\* file_exists = os.path.isfile(nome_file_csv); intestazione_attuale = []
Start ==
    /\ At("start")
    /\ file_exists' = disk.exists
    /\ intestazione_attuale' = <<>>
    /\ pc' = IF disk.exists THEN "read_header" ELSE "loop_top"
    /\ UNCHANGED << proc, clock, disk, locals, prima, conteggi, storia >>

\* Mutation of ReadHeader: the except clause only prints, the flag stays set.
ReadHeader_SenzaReset ==
    /\ At("read_header")
    /\ IF disk.exists /\ disk.leggibile /\ disk.rows # <<>>
       THEN intestazione_attuale' = Head(disk.rows)
       ELSE intestazione_attuale' = <<>>
    /\ pc' = "loop_top"
    /\ UNCHANGED << proc, clock, disk, file_exists, locals, prima, conteggi, storia >>

\* if file_exists: intestazione_attuale = next(reader); any exception (an empty
\* file: StopIteration; a file that cannot be opened or decoded) resets
\* file_exists and the header.
ReadHeader ==
    /\ At("read_header")
    /\ IF disk.exists /\ disk.leggibile /\ disk.rows # <<>>
       THEN /\ intestazione_attuale' = Head(disk.rows)
            /\ UNCHANGED file_exists
       ELSE /\ file_exists' = FALSE
            /\ intestazione_attuale' = <<>>
    /\ pc' = "loop_top"
    /\ UNCHANGED << proc, clock, disk, locals, prima, conteggi, storia >>

\* while True: current_time = datetime.now(); formatted_time = strftime(...)
LoopTop ==
    /\ At("loop_top")
    /\ clock < MaxClock
    /\ formatted_time' = StrfTime(clock)
    /\ prima' = [disk |-> disk, file_exists |-> file_exists,
                 intestazione_attuale |-> intestazione_attuale]
    /\ cicli' = cicli + 1
    /\ pc' = "fetch"
    /\ UNCHANGED << proc, clock, disk, tracker, dati_meteo, extracted, aggregated, fetches, storia >>

\* requests.get(...); raise_for_status(); dati_meteo = response.json(), the
\* document being one of bodies.
FetchDa(bodies) ==
    /\ At("fetch")
    /\ \E body \in bodies : dati_meteo' = body
    /\ fetches' = fetches + 1
    /\ pc' = "extract"
    /\ UNCHANGED << proc, clock, disk, tracker, formatted_time, extracted, aggregated, prima, cicli, storia >>

Fetch == FetchDa(Bodies)

FetchCaso == FetchDa(Casi)

\* Mutation of FetchError: the file had been opened for writing before the
\* request was made, so the failed cycle leaves it empty.
FetchError_Tronca ==
    /\ At("fetch")
    /\ fetches' = fetches + 1
    /\ disk' = FileOf(<<>>)
    /\ pc' = DopoErrore
    /\ UNCHANGED << proc, clock, tracker, locals, prima, cicli, storia >>

\* The request times out, fails, answers non-2xx, or the body is not JSON:
\* RequestException / JSONDecodeError, caught and printed.
FetchError ==
    /\ At("fetch")
    /\ fetches' = fetches + 1
    /\ pc' = DopoErrore
    /\ UNCHANGED << proc, clock, disk, tracker, locals, prima, cicli, storia >>

\* tipi_sensori_presenti = set(); dati_per_stazione = {}; the loop over
\* dati_meteo: [err, dps, tipi]; iterating a scalar raises TypeError.
Estrazione(body, ft) ==
    IF body.tipo = "scalar" THEN [err |-> TRUE, dps |-> EmptyDict, tipi |-> {}]
    ELSE EstraiStazioni(body.items, EmptyDict, {}, ft)

\* The extraction loop; an exception in it is caught by "except Exception".
Extract ==
    /\ At("extract")
    /\ LET r == Estrazione(dati_meteo, formatted_time) IN
       /\ dati_per_stazione' = r.dps
       /\ tipi_sensori_presenti' = r.tipi
       /\ pc' = IF r.err THEN DopoErrore ELSE "check"
    /\ UNCHANGED << proc, clock, disk, tracker, formatted_time, dati_meteo, aggregated, prima, conteggi, storia >>

\* Mutation of SkipsCycle: the empty-cycle test is never true.
SkipsCycle_Mai(dps) == FALSE

\* if not dati_per_stazione: time.sleep(15 * 60); continue
SkipsCycle(dps) == DOMAIN dps = {}

CheckEmpty ==
    /\ At("check")
    /\ pc' = IF SkipsCycle(dati_per_stazione) THEN "skip_sleep" ELSE "build"
    /\ UNCHANGED << proc, clock, disk, tracker, locals, prima, conteggi, storia >>

\* Mutation of HeadersChanged: every cycle is taken for a schema change.
HeadersChanged_Sempre(fe, nuova, attuale) == TRUE

\* headers_changed: not file_exists or nuova_intestazione != intestazione_attuale
HeadersChanged(fe, nuova, attuale) == ~fe \/ nuova # attuale

\* nuova_intestazione, headers_changed, riga_dati
Build ==
    /\ At("build")
    /\ LET nuova == NuovaIntestazione(tipi_sensori_presenti) IN
       /\ nuova_intestazione' = nuova
       /\ headers_changed' = HeadersChanged(file_exists, nuova, intestazione_attuale)
       /\ riga_dati' = RigaDati(formatted_time, nuova, dati_per_stazione)
    /\ pc' = "write"
    /\ UNCHANGED << proc, clock, disk, tracker, formatted_time, dati_meteo, extracted, prima, conteggi, storia >>

\* Mutation of OpenW: the tracker adopts the new header as soon as the file
\* is open, before the rows are written.
OpenW_Adotta ==
    /\ At("write")
    /\ headers_changed
    /\ disk' = FileOf(<<>>)
    /\ intestazione_attuale' = nuova_intestazione
    /\ file_exists' = TRUE
    /\ pc' = "w_header"
    /\ sovrascritto' = TRUE
    /\ scritti' = 0
    /\ UNCHANGED << proc, clock, locals, prima, conteggi, righe_iniziali >>

\* Mutation of OpenW: the file is opened without being truncated.
OpenW_SenzaTroncare ==
    /\ At("write")
    /\ headers_changed
    /\ disk' = IF disk.exists THEN disk ELSE FileOf(<<>>)
    /\ pc' = "w_header"
    /\ sovrascritto' = TRUE
    /\ scritti' = 0
    /\ UNCHANGED << proc, clock, tracker, locals, prima, conteggi, righe_iniziali >>

\* open(nome_file_csv, 'w'): creates the file or truncates it.
OpenW ==
    /\ At("write")
    /\ headers_changed
    /\ disk' = FileOf(<<>>)
    /\ pc' = "w_header"
    /\ sovrascritto' = TRUE
    /\ scritti' = 0
    /\ UNCHANGED << proc, clock, tracker, locals, prima, conteggi, righe_iniziali >>

\* Mutation of OpenA: the append branch opens the file as the overwrite
\* branch does, emptying it.
OpenA_Tronca ==
    /\ At("write")
    /\ ~headers_changed
    /\ disk' = FileOf(<<>>)
    /\ pc' = "a_row"
    /\ UNCHANGED << proc, clock, tracker, locals, prima, conteggi, storia >>

\* open(nome_file_csv, 'a'): creates the file if it is not there.
OpenA ==
    /\ At("write")
    /\ ~headers_changed
    /\ disk' = IF disk.exists THEN disk ELSE FileOf(<<>>)
    /\ pc' = "a_row"
    /\ UNCHANGED << proc, clock, tracker, locals, prima, conteggi, storia >>

\* open() raises OSError: the file is left as it was.
OpenError ==
    /\ At("write")
    /\ pc' = DopoErrore
    /\ UNCHANGED << proc, clock, disk, tracker, locals, prima, conteggi, storia >>

\* csv_writer.writerow(nuova_intestazione)
WriteHeader ==
    /\ At("w_header")
    /\ disk' = FileOf(Append(disk.rows, nuova_intestazione))
    /\ pc' = "w_row"
    /\ UNCHANGED << proc, clock, tracker, locals, prima, conteggi, storia >>

\* csv_writer.writerow(riga_dati), 'w' branch
WriteRowW ==
    /\ At("w_row")
    /\ disk' = FileOf(Append(disk.rows, riga_dati))
    /\ pc' = "w_adopt"
    /\ UNCHANGED << proc, clock, tracker, locals, prima, conteggi, storia >>

\* intestazione_attuale = nuova_intestazione; file_exists = True
Adopt ==
    /\ At("w_adopt")
    /\ intestazione_attuale' = nuova_intestazione
    /\ file_exists' = TRUE
    /\ pc' = "w_close"
    /\ UNCHANGED << proc, clock, disk, locals, prima, conteggi, storia >>

\* csv_writer.writerow(riga_dati), 'a' branch
AppendRow ==
    /\ At("a_row")
    /\ disk' = [disk EXCEPT !.rows = Append(disk.rows, riga_dati)]
    /\ pc' = "a_close"
    /\ UNCHANGED << proc, clock, tracker, locals, prima, conteggi, storia >>

\* End of the with block: the file is closed.
Close ==
    /\ status = "running"
    /\ pc \in {"w_close", "a_close"}
    /\ pc' = "written"
    /\ UNCHANGED << proc, clock, disk, tracker, locals, prima, conteggi, storia >>

\* print(f"Dati meteo aggiornati in: {nome_file_csv}"): the cycle has written.
Updated ==
    /\ At("written")
    /\ pc' = "wait"
    /\ scritti' = scritti + 1
    /\ UNCHANGED << proc, clock, disk, tracker, locals, prima, conteggi, righe_iniziali, sovrascritto >>

\* writerow raises (an encoding error, an OSError): the with block closes the
\* file with the rows written so far.
WriteError ==
    /\ status = "running"
    /\ pc \in {"w_header", "w_row", "a_row"}
    /\ pc' = DopoErrore
    /\ UNCHANGED << proc, clock, disk, tracker, locals, prima, conteggi, storia >>

\* Rows written since the file was opened: all of them after 'w', one after 'a'.
WrittenSinceOpen == IF pc = "w_close" THEN Len(disk.rows) ELSE 1

\* close() raises while flushing (disk full): some suffix of the rows written
\* since open() does not reach the file.
CloseError ==
    /\ status = "running"
    /\ pc \in {"w_close", "a_close"}
    /\ \E lost \in 0..WrittenSinceOpen :
           disk' = [disk EXCEPT !.rows = SubSeq(disk.rows, 1, Len(disk.rows) - lost)]
    /\ pc' = DopoErrore
    /\ UNCHANGED << proc, clock, tracker, locals, prima, conteggi, storia >>

\* next_update = ...; print(...); time.sleep(15 * 60)
Wait ==
    /\ At("wait")
    /\ clock' = clock + SleepMinutes
    /\ pc' = "loop_top"
    /\ UNCHANGED << proc, disk, tracker, locals, prima, conteggi, storia >>

\* Mutation of SkipSleep: the empty-cycle branch continues without sleeping.
SkipSleep_SenzaSleep ==
    /\ At("skip_sleep")
    /\ pc' = "loop_top"
    /\ UNCHANGED << proc, clock, disk, tracker, locals, prima, conteggi, storia >>

\* The sleep of the empty-cycle branch, followed by continue.
SkipSleep ==
    /\ At("skip_sleep")
    /\ clock' = clock + SleepMinutes
    /\ pc' = "loop_top"
    /\ UNCHANGED << proc, disk, tracker, locals, prima, conteggi, storia >>

\* Positions outside the outer try (before "try: while True").
StartupPcs == {"start", "read_header"}

\* Exit status when KeyboardInterrupt is raised at position p: the outer
\* except calls sys.exit(0); outside the try the exception is uncaught.
InterruptCodes(p) == IF p \in StartupPcs THEN UncaughtInterruptCodes ELSE {0}

\* Mutation of Interrupt: the signal is only looked at between cycles.
Interrupt_SoloTraCicli ==
    /\ status = "running"
    /\ pc \in StartupPcs \cup {"loop_top", "wait", "skip_sleep"}
    /\ status' = "exited"
    /\ exit_code' \in InterruptCodes(pc)
    /\ UNCHANGED << pc, clock, disk, tracker, locals, prima, conteggi, storia >>

\* SIGINT: KeyboardInterrupt is raised wherever the program is.  It is not an
\* Exception, so the inner handlers do not catch it; a with block it leaves
\* closes the file with the rows written so far.
Interrupt ==
    /\ status = "running"
    /\ status' = "exited"
    /\ exit_code' \in InterruptCodes(pc)
    /\ UNCHANGED << pc, clock, disk, tracker, locals, prima, conteggi, storia >>

Program ==
    \/ Start \/ ReadHeader \/ LoopTop \/ Fetch \/ FetchError \/ Extract
    \/ CheckEmpty \/ Build \/ OpenW \/ OpenA \/ OpenError \/ WriteHeader
    \/ WriteRowW \/ Adopt \/ AppendRow \/ Close \/ Updated \/ WriteError
    \/ CloseError \/ Wait \/ SkipSleep

Next == Program \/ Interrupt

Spec == Init /\ [][Next]_vars

\* A run started without a file (the header is never read at startup).
ProgramFresh ==
    \/ Start \/ LoopTop \/ Fetch \/ FetchError \/ Extract
    \/ CheckEmpty \/ Build \/ OpenW \/ OpenA \/ OpenError \/ WriteHeader
    \/ WriteRowW \/ Adopt \/ AppendRow \/ Close \/ Updated \/ WriteError
    \/ CloseError \/ Wait \/ SkipSleep

NextFresh == ProgramFresh \/ Interrupt

SpecFresh == InitWith({Absent}) /\ [][NextFresh]_vars

\* The file is removed by someone else while the program sleeps.
RimuoviFile ==
    /\ status = "running"
    /\ pc \in {"wait", "skip_sleep"}
    /\ disk.exists
    /\ disk' = Absent
    /\ UNCHANGED << pc, proc, clock, tracker, locals, prima, conteggi, storia >>

NextEnv == Next \/ RimuoviFile

SpecEnv == Init /\ [][NextEnv]_vars

\* One cycle of a run started without a file, up to the row it is about to
\* write, over the generated documents.
NextCiclo == Start \/ LoopTop \/ FetchCaso \/ Extract \/ CheckEmpty \/ Build

SpecCiclo == InitWith({Absent}) /\ [][NextCiclo]_vars

\* A run in which no open, write or close fails and no interrupt arrives
\* (requests may still fail, and documents may still be malformed).
ProgramSereno ==
    \/ Start \/ ReadHeader \/ LoopTop \/ Fetch \/ FetchError \/ Extract
    \/ CheckEmpty \/ Build \/ OpenW \/ OpenA \/ WriteHeader
    \/ WriteRowW \/ Adopt \/ AppendRow \/ Close \/ Updated
    \/ Wait \/ SkipSleep

SpecSereno == Init /\ [][ProgramSereno]_vars

\* The steps other than the two that compute (Extract, Build).
Leggero ==
    \/ Start \/ ReadHeader \/ LoopTop \/ Fetch \/ FetchError
    \/ CheckEmpty \/ OpenW \/ OpenA \/ OpenError \/ WriteHeader
    \/ WriteRowW \/ Adopt \/ AppendRow \/ Close \/ Updated \/ WriteError
    \/ CloseError \/ Wait \/ SkipSleep

\* A running process keeps executing: a statement that can be executed
\* eventually is; the request is bounded by its timeout and the sleep ends.
\* Nothing obliges an interrupt, and nothing obliges a step to succeed.
\* Extract and Build are enabled exactly at their position and leave it, so
\* their weak fairness is stated as []<>~At(position), which TLC decides
\* without re-evaluating the extraction and the aggregation.
LiveSpec ==
    /\ Spec
    /\ WF_vars(Leggero)
    /\ []<>(~At("extract"))
    /\ []<>(~At("build"))

(**************************** properties ***********************************)
\* Positions of a cycle reached only after its own extraction succeeded.
DopoEstrazione ==
    { "check", "skip_sleep", "build", "write", "w_header", "w_row", "w_adopt",
      "w_close", "a_row", "a_close", "written" }

\* Positions at which no cycle is in progress inside the loop.
TraCicli == {"loop_top", "wait", "skip_sleep"}

\* The tracker is what it was when the iteration began.
TrackerInvariato ==
    /\ file_exists = prima.file_exists
    /\ intestazione_attuale = prima.intestazione_attuale

\* C1: when a cycle has completed its store write and, as the iteration began,
\* the tracker knew a header different from the cycle's candidate header, the
\* file holds exactly the new header followed by the cycle's data row (every
\* earlier row is gone) and the tracker's header is the new one.
C1_SchemaChangeDiscardsHistory ==
    (pc = "written" /\ prima.file_exists
        /\ nuova_intestazione # prima.intestazione_attuale)
    => /\ disk.exists
       /\ disk.rows = << nuova_intestazione, riga_dati >>
       /\ file_exists
       /\ intestazione_attuale = nuova_intestazione

\* A schema change has overwritten a file that held a header and data rows.
C1_Witness ==
    /\ pc = "written"
    /\ prima.file_exists
    /\ nuova_intestazione # prima.intestazione_attuale
    /\ Len(prima.disk.rows) >= 2
    /\ prima.disk.rows[1] = prima.intestazione_attuale
    /\ disk.rows = << nuova_intestazione, riga_dati >>

\* C2: when a cycle has completed its store write and its candidate header is
\* the header the tracker knew as the iteration began, the file is the file of
\* before with exactly one row appended, that row has one field per header
\* column, and the tracker is unchanged; so a file that held the header and
\* one data row now holds that header once, followed by two data rows.
C2_AppendOnUnchangedSchema ==
    (pc = "written" /\ prima.file_exists
        /\ nuova_intestazione = prima.intestazione_attuale)
    => /\ disk.rows = Append(prima.disk.rows, riga_dati)
       /\ Len(riga_dati) = Len(nuova_intestazione)
       /\ TrackerInvariato
       /\ (Len(prima.disk.rows) = 2 /\ prima.disk.rows[1] = nuova_intestazione)
            => /\ Len(disk.rows) = 3
               /\ {i \in 1..3 : disk.rows[i] = nuova_intestazione} = {1}

\* The second of two consecutive writing cycles with the same header, the
\* first of which created the file.
C2_Witness ==
    /\ pc = "written"
    /\ clock = SleepMinutes
    /\ prima.file_exists
    /\ nuova_intestazione = prima.intestazione_attuale
    /\ Len(disk.rows) = 3
    /\ disk.rows[1] = nuova_intestazione
    /\ disk.rows[2][1] = StrfTime(0)
    /\ disk.rows[3] = riga_dati
    /\ riga_dati[1] = StrfTime(SleepMinutes)

\* C3: every data row of the file has as many fields as the file's header row.
C3_RowWidthInvariant ==
    \A i \in 2..Len(disk.rows) : Len(disk.rows[i]) = Len(disk.rows[1])

\* C4: at a cycle boundary, once a cycle has written, the file has exactly one
\* header row, it is the first row, and it is the candidate header of the most
\* recent cycle that computed one.
C4_SingleSchemaInvariant ==
    (pc \in TraCicli /\ file_exists)
    => /\ disk.exists
       /\ disk.rows # <<>>
       /\ disk.rows[1] = nuova_intestazione
       /\ {i \in 1..Len(disk.rows) : disk.rows[i][1] = Data_Ora} = {1}

\* C5: when a cycle has completed its store write and the file was absent as
\* the iteration began, the file is the header followed by exactly that
\* cycle's data row, and the tracker knows that header.
C5_WriteToAbsentFile ==
    (pc = "written" /\ ~prima.disk.exists)
    => /\ disk.exists
       /\ disk.rows = << nuova_intestazione, riga_dati >>
       /\ file_exists
       /\ intestazione_attuale = nuova_intestazione

\* C6: in a cycle where catalog stations are present but none has a qualifying
\* reading, the file and the tracker stay what they were when the cycle began.
C6_EmptyLabelUnionSkipped ==
    (pc \in DopoEstrazione /\ DOMAIN dati_per_stazione # {}
        /\ tipi_sensori_presenti = {})
    => disk = prima.disk /\ TrackerInvariato

\* The snapshot is an array of station objects none of which is in the catalog.
NessunaStazione(dati) ==
    /\ dati.tipo = "array"
    /\ \A i \in 1..Len(dati.items) :
           dati.items[i].isObj /\ dati.items[i].nome \notin StazioniSet

\* C7: in a cycle whose snapshot holds no catalog station, the file and the
\* tracker are what they were when the cycle began, extraction raises nothing,
\* and the cycle goes through exactly one sleep to the top of the loop.
C7_EmptyCycleUnchanged ==
    /\ []((pc \in {"extract", "check", "skip_sleep"} /\ NessunaStazione(dati_meteo))
            => disk = prima.disk /\ TrackerInvariato)
    /\ [][(NessunaStazione(dati_meteo) /\ pc' # pc)
            => /\ pc = "extract" => pc' = "check"
               /\ pc = "check" => pc' = "skip_sleep"
               /\ pc = "skip_sleep" =>
                    /\ pc' = "loop_top"
                    /\ clock' = clock + SleepMinutes
                    /\ disk' = disk
                    /\ file_exists' = file_exists
                    /\ intestazione_attuale' = intestazione_attuale]_vars

\* An empty cycle over a file that holds rows has reached its sleep.
C7_Witness ==
    /\ pc = "skip_sleep"
    /\ NessunaStazione(dati_meteo)
    /\ dati_meteo.items # <<>>
    /\ Len(disk.rows) >= 2
    /\ disk = prima.disk

\* Clock values at which a cycle starts and the model lets the next one start.
InizioCiclo ==
    {c \in 0..MaxClock : c % SleepMinutes = 0 /\ c + SleepMinutes < MaxClock}

\* C8: once a cycle has started, however it ends, the next cycle starts
\* (one sleep later) unless the process is interrupted.
C8_LoopSurvivesErrors ==
    \A c \in InizioCiclo :
        (At("fetch") /\ clock = c)
            ~> ((pc = "fetch" /\ clock = c + SleepMinutes) \/ status = "exited")

\* A cycle whose overwrite failed after truncating the file was followed by a
\* new cycle.
C8_Witness ==
    /\ At("fetch")
    /\ clock = SleepMinutes
    /\ prima.disk = FileOf(<<>>)
    /\ ~file_exists
    /\ nuova_intestazione # <<>>

\* C9: whenever the process has exited, its exit code is 0.
C9_InterruptAlwaysExitsZero == status = "exited" => exit_code = 0

\* C10 as stated: the process exits from the loop only between cycles.
C10_OnlyBetweenCycles ==
    (status = "exited" /\ pc \notin StartupPcs) => pc \in TraCicli

\* C10 amended: inside the loop an interrupt is honoured wherever it arrives;
\* the process then exits with code 0 and executes nothing more, so a cycle
\* interrupted after an overwrite open leaves the file empty or with the
\* header only.
C10_InterruptAnywhere ==
    /\ (status = "running" /\ pc \notin StartupPcs) => ENABLED Interrupt
    /\ (status = "exited" /\ pc \notin StartupPcs)
         => /\ exit_code = 0
            /\ ~ENABLED Next
            /\ pc = "w_header" => disk.rows = <<>>
            /\ pc = "w_row" => disk.rows = << nuova_intestazione >>

\* The process was interrupted between writing the header and the data row.
C10_Witness ==
    /\ status = "exited"
    /\ exit_code = 0
    /\ pc = "w_row"
    /\ Len(prima.disk.rows) >= 2
    /\ disk.rows = << nuova_intestazione >>

\* Positions inside an iteration of the loop, after its first statements.
NelCiclo ==
    { "fetch", "extract", "check", "build", "write", "w_header", "w_row",
      "w_adopt", "w_close", "a_row", "a_close", "written", "wait", "skip_sleep" }

\* C11 as stated: every cycle begun, the first included, was preceded by a
\* sleep of the fixed period, and no fetch is issued before the first sleep
\* has elapsed.
C11_SleepPrecedesEachCycle ==
    /\ clock >= cicli * SleepMinutes
    /\ fetches >= 1 => clock >= SleepMinutes

\* C11 amended: the sleep follows each cycle.  The first cycle, and its fetch,
\* run right after startup with no sleep before them; every later cycle begins
\* after exactly one sleep of the fixed period following the cycle before it.
C11_SleepFollowsEachCycle ==
    /\ pc \in NelCiclo => clock = (cicli - 1) * SleepMinutes
    /\ pc = "loop_top" => clock = cicli * SleepMinutes
    /\ (cicli = 1 /\ pc \in NelCiclo) => clock = 0

\* The second cycle has fetched after one sleep; the first had fetched with
\* none.
C11_Witness ==
    /\ pc = "extract"
    /\ cicli = 2
    /\ fetches = 2
    /\ clock = SleepMinutes
    /\ formatted_time = StrfTime(SleepMinutes)

\* C12: each cycle issues exactly one fetch, and between two consecutive
\* fetches there is exactly one sleep of the fixed period, however the earlier
\* cycle ended: every exit of a cycle goes through one sleep to the top of the
\* loop, and a fetch is only issued from the top of the loop.
C12_FixedPeriodNoRetry ==
    /\ [](/\ pc = "fetch" => (fetches = cicli - 1 /\ clock = fetches * SleepMinutes)
          /\ pc \in (NelCiclo \ {"fetch"})
                => (fetches = cicli /\ clock = (fetches - 1) * SleepMinutes))
    /\ [][/\ fetches' # fetches => (fetches' = fetches + 1 /\ pc = "fetch" /\ pc' # "fetch")
          /\ (pc' = "fetch" /\ pc # "fetch") => pc = "loop_top"
          /\ (pc \in {"written", "check", "fetch", "extract", "write", "w_header",
                        "w_row", "w_close", "a_row", "a_close"} /\ pc' \in TraCicli)
                => (pc' \in {"wait", "skip_sleep"} /\ clock' = clock)
          /\ (pc \in {"wait", "skip_sleep"} /\ pc' # pc)
                => (pc' = "loop_top" /\ clock' = clock + SleepMinutes)]_vars

\* The third fetch, two sleeps after the first: the first cycle wrote its row,
\* the second wrote nothing.
C12_Witness ==
    /\ pc = "extract"
    /\ fetches = 3
    /\ clock = 2 * SleepMinutes
    /\ Len(disk.rows) = 2
    /\ disk.rows[2][1] = StrfTime(0)

\* C13: a cycle abandoned by the request (transport error, body that is not
\* JSON) or by the extraction (a body that is no array of station objects, a
\* malformed element part-way) has the file and the tracker, as it is
\* abandoned, exactly as they were when the cycle began.
C13_FetchFormatErrorsNoSideEffect ==
    /\ [](pc \in {"fetch", "extract"} => (disk = prima.disk /\ TrackerInvariato))
    /\ [][(pc \in {"fetch", "extract"} /\ pc' \notin {"fetch", "extract", "check"})
            => /\ disk' = prima.disk
               /\ file_exists' = prima.file_exists
               /\ intestazione_attuale' = prima.intestazione_attuale
               /\ prima' = prima]_vars

\* A cycle over a file with rows was abandoned at a malformed element met
\* after a well-formed catalog station.
C13_Witness ==
    /\ pc = "wait"
    /\ fetches = cicli
    /\ dati_meteo = Array(SnapMalformato)
    /\ DOMAIN dati_per_stazione # {}
    /\ formatted_time = StrfTime(clock)
    /\ Len(disk.rows) >= 2
    /\ disk = prima.disk

\* The file has a first row that can be read.
PrimaRigaLeggibile(f) == f.exists /\ f.leggibile /\ f.rows # <<>>

\* C14: after startup the tracker knows the first row of a file whose first
\* row can be read, and knows no file when the file is absent, empty or
\* unreadable; the first cycle, when it writes, appends its row to all the rows
\* that were there if its candidate header is that first row, and otherwise
\* overwrites the file with the header and its row.
C14_StartupReinitialization ==
    /\ (pc = "loop_top" /\ cicli = 0)
         => IF PrimaRigaLeggibile(disk)
            THEN file_exists /\ intestazione_attuale = disk.rows[1]
            ELSE ~file_exists /\ intestazione_attuale = <<>>
    /\ (pc = "written" /\ cicli = 1)
         => IF PrimaRigaLeggibile(prima.disk) /\ nuova_intestazione = prima.disk.rows[1]
            THEN disk.rows = Append(prima.disk.rows, riga_dati)
            ELSE disk.rows = << nuova_intestazione, riga_dati >>

\* The first cycle after a start over a file left by an earlier run, with the
\* same header, has appended its row after the old one.
C14_Witness ==
    /\ pc = "written"
    /\ cicli = 1
    /\ prima.disk = FileOf(<< <<Data_Ora, TempC>>, OldRow >>)
    /\ disk.rows = << <<Data_Ora, TempC>>, OldRow, riga_dati >>
    /\ riga_dati[1] = StrfTime(0)

\* Indices of the records of catalog stations in the document.
RecordCatalogo(body) ==
    {i \in 1..Len(body.items) : body.items[i].isObj /\ body.items[i].nome \in StazioniSet}

\* Indices of the readings of a record whose type code is in the catalog.
LettureQualificanti(rec) ==
    {j \in 1..Len(rec.analog) : rec.analog[j].tipoSens \in sensori_interessati_tipoSens}

\* Labels of the qualifying readings of one record.
EtichetteRecord(rec) ==
    {ChiaveSensore(rec.analog[j]) : j \in LettureQualificanti(rec)}

\* Labels of the qualifying readings of the catalog stations of the document.
EtichetteSnapshot(body) ==
    UNION {EtichetteRecord(body.items[i]) : i \in RecordCatalogo(body)}

\* Some catalog station record of the document reports the label with a value
\* other than the text N/A.
Riportata(label, body) ==
    \E i \in RecordCatalogo(body) :
        \E j \in LettureQualificanti(body.items[i]) :
            /\ ChiaveSensore(body.items[i].analog[j]) = label
            /\ body.items[i].analog[j].valore # JStr(NA)

\* The stations whose value for the label is collected.
Contribuenti(label, dps) ==
    {st \in DOMAIN dps : label \in DOMAIN dps[st] /\ dps[st][label] # JStr(NA)}

\* C15: for every label of the candidate header, if at least one catalog
\* station reported the label in the cycle then the label's cell of the row is
\* not N/A, and the cell is N/A only when no value was collected for the label.
C15_ReportedLabelNotNA ==
    pc = "write"
    => \A i \in 2..Len(nuova_intestazione) :
          /\ Riportata(nuova_intestazione[i], dati_meteo) => riga_dati[i] # NA
          /\ riga_dati[i] = NA
               => Contribuenti(nuova_intestazione[i], dati_per_stazione) = {}

\* The catalog order of the stations, as declared.
CatalogoDichiarato ==
    << "Misa", "Pianello di Ostra", "Nevola", "Barbara", "Serra dei Conti",
       "Arcevia" >>

Posizione(st) == CHOOSE k \in 1..Len(CatalogoDichiarato) : CatalogoDichiarato[k] = st

\* The contributing station that comes first in the declared catalog order.
Primo(label, dps) ==
    CHOOSE st \in Contribuenti(label, dps) :
        \A o \in Contribuenti(label, dps) : Posizione(st) <= Posizione(o)

\* A value that is no decimal number: null, or a text that is not one.
NonNumerico(v) == v.kind = "null" \/ (v.kind = "str" /\ ~FloatOk(v.s))

\* C16: when at least one collected value for a label is no decimal number,
\* the cell is the value, as text, of the contributing station that comes
\* first in the declared catalog order, whatever the order of the records in
\* the snapshot; the cycle goes on to write (no error), no mean is computed.
C16_MixedTypeFallback ==
    pc = "write"
    => \A i \in 2..Len(nuova_intestazione) :
          LET label == nuova_intestazione[i]
              c == Contribuenti(label, dati_per_stazione)
          IN  (\E st \in c : NonNumerico(dati_per_stazione[st][label]))
                => riga_dati[i] = PyStr(dati_per_stazione[Primo(label, dati_per_stazione)][label])

\* Barbara's record, with a number, precedes Misa's, with a text, in the
\* snapshot: the cell is Misa's text.
C16_Witness ==
    /\ pc = "write"
    /\ Len(dati_meteo.items) = 2
    /\ dati_meteo.items[1].nome = "Barbara"
    /\ dati_meteo.items[2].nome = "Misa"
    /\ DOMAIN dati_per_stazione = {"Misa", "Barbara"}
    /\ nuova_intestazione = << Data_Ora, TempC >>
    /\ Contribuenti(TempC, dati_per_stazione) = {"Misa", "Barbara"}
    /\ dati_per_stazione["Barbara"][TempC] = JFloat(155)
    /\ dati_per_stazione["Misa"][TempC] = JStr(Abc)
    /\ riga_dati = << StrfTime(0), Abc >>

\* A JSON number.
Numerico(v) == v.kind \in {"int", "float"}

\* A JSON number, in tenths.
Decimi(v) == IF v.kind = "int" THEN 10 * v.n ELSE v.n

\* Sum, in tenths, of the values of the stations of S for the label.
RECURSIVE SommaDecimi(_, _, _)
SommaDecimi(label, dps, S) ==
    IF S = {} THEN 0
    ELSE LET st == CHOOSE x \in S : TRUE IN
         Decimi(dps[st][label]) + SommaDecimi(label, dps, S \ {st})

\* The text is digits, a point and two digits.
DueDecimali(c) ==
    /\ Len(c) >= 4
    /\ c[Len(c) - 2] = "."
    /\ \A k \in (1..Len(c)) \ {Len(c) - 2} : IsDigit(c[k])

\* The number such a text denotes, in hundredths.
Centesimi(c) ==
    100 * DigitsVal(SubSeq(c, 1, Len(c) - 3)) + DigitsVal(SubSeq(c, Len(c) - 1, Len(c)))

\* C17: when every collected value for a label is a number, the cell is a
\* text with two fractional digits whose value is within half a hundredth of
\* the sum of the collected values divided by the number of stations that
\* contributed; 10.0, 20.0, 30.0 give "20.00" and 15.5, 17.5 give "16.50".
C17_AveragingCorrectness ==
    pc = "write"
    => /\ \A i \in 2..Len(nuova_intestazione) :
            LET label == nuova_intestazione[i]
                c == Contribuenti(label, dati_per_stazione)
                n == Cardinality(c)
                t == SommaDecimi(label, dati_per_stazione, c)
            IN  (c # {} /\ \A st \in c : Numerico(dati_per_stazione[st][label]))
                  => /\ DueDecimali(riga_dati[i])
                     /\ Abs(10 * n * Centesimi(riga_dati[i]) - 100 * t) <= 5 * n
       /\ dati_meteo = Array(SnapTre)
            => riga_dati = << formatted_time, <<"2", "0", ".", "0", "0">> >>
       /\ dati_meteo = Array(SnapMisaBarbara)
            => riga_dati = << formatted_time, <<"1", "6", ".", "5", "0">> >>

\* Three of the six catalog stations report 10.0, 20.0 and 30.0.
C17_Witness ==
    /\ pc = "write"
    /\ dati_meteo = Array(SnapTre)
    /\ Contribuenti(TempC, dati_per_stazione) = {"Misa", "Nevola", "Barbara"}
    /\ nuova_intestazione = << Data_Ora, TempC >>
    /\ riga_dati[2] = <<"2", "0", ".", "0", "0">>

\* The document has the shape of a snapshot: an array of station objects whose
\* readings have a text description and a text, or no, unit.
BenTipato(body) ==
    /\ body.tipo = "array"
    /\ \A i \in 1..Len(body.items) :
          /\ body.items[i].isObj
          /\ \A j \in 1..Len(body.items[i].analog) :
                /\ body.items[i].analog[j].descr.kind = "str"
                /\ body.items[i].analog[j].unmis.kind \in {"str", "null"}

\* C18: for every snapshot the extraction ends without error; the stations of
\* the mapping are catalog stations of the snapshot, every label the mapping
\* or the label set records, hence every column of the candidate header other
\* than Data_Ora, is the label of a reading, of a catalog station, whose type
\* code is in the catalog's set.
C18_FilteringInvariant ==
    /\ pc = "wait" => ~BenTipato(dati_meteo)
    /\ pc \in DopoEstrazione
         => /\ DOMAIN dati_per_stazione
                 = {dati_meteo.items[i].nome : i \in RecordCatalogo(dati_meteo)}
            /\ DOMAIN dati_per_stazione \subseteq StazioniSet
            /\ \A st \in DOMAIN dati_per_stazione :
                  \A label \in (DOMAIN dati_per_stazione[st]) \ {TimestampKey} :
                     \E i \in RecordCatalogo(dati_meteo) :
                        /\ dati_meteo.items[i].nome = st
                        /\ label \in EtichetteRecord(dati_meteo.items[i])
            /\ tipi_sensori_presenti \subseteq EtichetteSnapshot(dati_meteo)
    /\ pc = "write"
         => \A i \in 2..Len(nuova_intestazione) :
               nuova_intestazione[i] \in EtichetteSnapshot(dati_meteo)

\* A snapshot with a station outside the catalog and, in a catalog station, a
\* reading of a type outside the catalog: both are left out.
C18_Witness ==
    /\ pc = "write"
    /\ Len(dati_meteo.items) = 2
    /\ dati_meteo.items[1].nome = "Roma"
    /\ dati_meteo.items[1].analog # <<>>
    /\ dati_meteo.items[2].nome = "Misa"
    /\ Len(dati_meteo.items[2].analog) = 2
    /\ dati_meteo.items[2].analog[1].tipoSens = 2
    /\ DOMAIN dati_per_stazione = {"Misa"}
    /\ DOMAIN dati_per_stazione["Misa"] = {TimestampKey, TempC}
    /\ nuova_intestazione = << Data_Ora, TempC >>

PiogVuoto == <<"P", "i", "o", "g", " ", "(", ")">>

\* C19: the candidate header is Data_Ora followed by the labels of all the
\* qualifying readings of the catalog stations of the snapshot, each once, in
\* ascending order; the row has the poll time and, for each column, in the
\* header's order, the cell of that column's label.
C19_CandidateHeader ==
    pc = "write"
    => /\ nuova_intestazione[1] = Data_Ora
       /\ {nuova_intestazione[i] : i \in 2..Len(nuova_intestazione)}
            = EtichetteSnapshot(dati_meteo)
       /\ Len(nuova_intestazione) = 1 + Cardinality(EtichetteSnapshot(dati_meteo))
       /\ \A i \in 2..Len(nuova_intestazione) : \A j \in 2..Len(nuova_intestazione) :
             i < j => LexLess(nuova_intestazione[i], nuova_intestazione[j])
       /\ Len(riga_dati) = Len(nuova_intestazione)
       /\ riga_dati[1] = formatted_time
       /\ \A i \in 2..Len(nuova_intestazione) :
             /\ riga_dati[i] = NA
                  <=> Contribuenti(nuova_intestazione[i], dati_per_stazione) = {}
             /\ Contribuenti(nuova_intestazione[i], dati_per_stazione) = {"Misa"}
                  => \/ riga_dati[i] = PyStr(dati_per_stazione["Misa"][nuova_intestazione[i]])
                     \/ /\ Numerico(dati_per_stazione["Misa"][nuova_intestazione[i]])
                        /\ Centesimi(riga_dati[i])
                             = 10 * Decimi(dati_per_stazione["Misa"][nuova_intestazione[i]])
       /\ EtichetteSnapshot(dati_meteo) = {TempC, PiogMm, PiogVuoto}
            => nuova_intestazione = << Data_Ora, PiogVuoto, PiogMm, TempC >>

\* Three labels from two stations: the header in ascending order and the row
\* with each label's cell under its column.
C19_Witness ==
    /\ pc = "write"
    /\ Len(dati_meteo.items) = 2
    /\ dati_meteo.items[1].nome = "Misa"
    /\ dati_meteo.items[2].nome = "Barbara"
    /\ nuova_intestazione = << Data_Ora, PiogVuoto, PiogMm, TempC >>
    /\ riga_dati = << StrfTime(0), <<"3", ".", "0", "0">>, <<"2", ".", "0", "0">>,
                      <<"1", "5", ".", "5", "0">> >>

\* The record is the last one of its station in the document.
UltimoDelNome(body, i) ==
    \A k \in RecordCatalogo(body) : body.items[k].nome = body.items[i].nome => k <= i

\* C20: a catalog station record whose lastUpdateTime is missing, null, no
\* text or no ISO-8601 text still gives the station its entry of the mapping,
\* with the poll time as its time and with its qualifying readings; a
\* well-shaped snapshot is never abandoned by the extraction; and the first
\* field of the row a cycle has written is the poll time, DD/MM/YYYY HH:MM.
C20_MalformedTimestampRecovered ==
    /\ [](pc \in DopoEstrazione
            => \A i \in RecordCatalogo(dati_meteo) :
                  LET rec == dati_meteo.items[i] IN
                  rec.lastUpdateTime.kind # "iso"
                    => /\ rec.nome \in DOMAIN dati_per_stazione
                       /\ UltimoDelNome(dati_meteo, i)
                            => /\ dati_per_stazione[rec.nome][TimestampKey]
                                    = JStr(StrfTime(clock))
                               /\ EtichetteRecord(rec)
                                    \subseteq DOMAIN dati_per_stazione[rec.nome])
    /\ [](pc = "written"
            => /\ disk.rows[Len(disk.rows)] = riga_dati
               /\ riga_dati[1] = StrfTime(clock))
    /\ [][(pc = "extract" /\ pc' = "wait") => ~BenTipato(dati_meteo)]_vars

\* The second cycle has written the row of a snapshot whose two catalog
\* stations have no usable time: one has no lastUpdateTime, the other a number.
C20_Witness ==
    /\ pc = "written"
    /\ clock = SleepMinutes
    /\ dati_meteo = Array(SnapDueSensori)
    /\ dati_per_stazione["Misa"][TimestampKey] = JStr(StrfTime(SleepMinutes))
    /\ dati_per_stazione["Barbara"][TimestampKey] = JStr(StrfTime(SleepMinutes))
    /\ DOMAIN dati_per_stazione["Misa"] = {TimestampKey, TempC, PiogMm}
    /\ disk.rows[Len(disk.rows)] = << StrfTime(SleepMinutes), <<"2", ".", "0", "0">>,
                                      <<"1", "6", ".", "5", "0">> >>

\* The qualifying readings of the catalog station records of the document.
LettureSnapshot(body) ==
    UNION { {body.items[i].analog[j] : j \in LettureQualificanti(body.items[i])}
            : i \in RecordCatalogo(body) }

\* unita_misura of a reading: the trimmed unit, empty when missing or null.
UnitaDi(sensore) == IF Truthy(sensore.unmis) THEN Strip(sensore.unmis.s) ELSE <<>>

\* C21: for any two qualifying readings of a snapshot, the labels are equal
\* if and only if the trimmed descriptions are equal and the trimmed units are
\* equal, a missing or null unit counting as the empty unit.
C21_LabelExactJoinKey ==
    (pc \in DopoEstrazione /\ BenTipato(dati_meteo))
    => \A a \in LettureSnapshot(dati_meteo) : \A b \in LettureSnapshot(dati_meteo) :
          (ChiaveSensore(a) = ChiaveSensore(b))
            <=> (Strip(a.descr.s) = Strip(b.descr.s) /\ UnitaDi(a) = UnitaDi(b))

\* Positions at which open() or writerow() can raise.
AperturaOScrittura == {"write", "w_header", "w_row", "a_row"}

\* The rows of the file f that are not rows of the file g.
RigheNuove(f, g) ==
    {f.rows[i] : i \in 1..Len(f.rows)} \ {g.rows[i] : i \in 1..Len(g.rows)}

\* C22: a cycle whose open() or writerow() raises is abandoned there: nothing
\* is fetched again, the tracker's header and flag are those of the beginning
\* of the cycle, the cycle's row is not in the file; the loop then sleeps once
\* and goes to the next cycle; and a row that enters the file is always the
\* header or the row of the cycle in progress, with that cycle's poll time, so
\* the abandoned row is not written later.
C22_PersistenceErrorAbandonsCycle ==
    /\ [][(pc \in AperturaOScrittura /\ pc' = "wait")
            => /\ file_exists' = prima.file_exists
               /\ intestazione_attuale' = prima.intestazione_attuale
               /\ fetches' = fetches
               /\ cicli' = cicli
               /\ clock' = clock
               /\ riga_dati' = riga_dati
               /\ \A i \in 1..Len(disk'.rows) : disk'.rows[i] # riga_dati]_vars
    /\ [][(pc = "wait" /\ pc' # pc)
            => /\ pc' = "loop_top"
               /\ clock' = clock + SleepMinutes
               /\ disk' = disk
               /\ file_exists' = file_exists
               /\ intestazione_attuale' = intestazione_attuale]_vars
    /\ [][RigheNuove(disk', disk) \subseteq {nuova_intestazione, riga_dati}
            /\ (RigheNuove(disk', disk) # {} => riga_dati[1] = StrfTime(clock))]_vars
    /\ [](pc \in AperturaOScrittura => riga_dati[1] = StrfTime(clock))

\* An overwrite was abandoned between the header and the row: the file holds
\* the new header only, the tracker still holds the old one, the loop is at
\* its sleep.
C22_Witness ==
    /\ pc = "wait"
    /\ riga_dati # <<>>
    /\ riga_dati[1] = StrfTime(clock)
    /\ prima.file_exists
    /\ Len(prima.disk.rows) >= 2
    /\ file_exists
    /\ intestazione_attuale = prima.intestazione_attuale
    /\ intestazione_attuale # nuova_intestazione
    /\ disk.rows = << nuova_intestazione >>

\* C23: at every cycle boundary, if the tracker's flag is set then the file's
\* first row is the tracker's header, also after an overwrite that failed
\* once the file had been truncated; and a cycle that has appended its row
\* has appended it to a file whose first row is that header.
C23_TrackerDiskAgreement ==
    /\ (pc \in TraCicli /\ file_exists)
         => /\ disk.exists
            /\ disk.rows # <<>>
            /\ disk.rows[1] = intestazione_attuale
    /\ pc = "a_close"
         => /\ Len(disk.rows) >= 2
            /\ disk.rows[1] = intestazione_attuale

\* C24: in a run with no write failure and no interrupt, at every cycle
\* boundary the file's data rows number the cycles that have written since and
\* including the most recent overwrite of the run, or, while the run has not
\* overwritten, the data rows present at startup plus the cycles that have
\* written.
C24_RowCountTracksLastSchemaChange ==
    pc \in TraCicli
      => DataRows(disk) = IF sovrascritto THEN scritti
                                          ELSE righe_iniziali + scritti

\* A file found at startup with one data row was overwritten by a cycle with
\* another header and appended to by the next: two data rows, not three.
C24_Witness ==
    /\ pc = "wait"
    /\ righe_iniziali = 1
    /\ sovrascritto
    /\ scritti = 2
    /\ DataRows(disk) = 2
    /\ prima.disk.exists /\ DataRows(prima.disk) = 1
    /\ ~headers_changed

\* The length of the longest list of readings in the document.
MaxLetture(body) ==
    LET lunghezze == {0} \cup {Len(body.items[i].analog) : i \in RecordCatalogo(body)}
    IN  CHOOSE m \in lunghezze : \A x \in lunghezze : x <= m

\* The value the snapshot gives a station for a label, as a set with at most
\* one element: the value of the last qualifying reading with the label in
\* the last record of the station, unless it is the text N/A.
ValoreUsato(label, body, st) ==
    { body.items[i].analog[j].valore :
        <<i, j>> \in
          { p \in (1..Len(body.items)) \X (1..MaxLetture(body)) :
              /\ p[1] \in RecordCatalogo(body)
              /\ body.items[p[1]].nome = st
              /\ UltimoDelNome(body, p[1])
              /\ p[2] \in LettureQualificanti(body.items[p[1]])
              /\ ChiaveSensore(body.items[p[1]].analog[p[2]]) = label
              /\ \A k \in LettureQualificanti(body.items[p[1]]) :
                    ChiaveSensore(body.items[p[1]].analog[k]) = label => k <= p[2] } }
      \ {JStr(NA)}

\* The list of texts those values make, in catalog order.
Attesi(label, body) ==
    LET n == Len(stazioni_interessate)
        usato == [k \in 1..n |-> ValoreUsato(label, body, stazioni_interessate[k])]
        chi == SelectSeq([k \in 1..n |-> k], LAMBDA k : usato[k] # {})
    IN  [k \in 1..Len(chi) |-> PyStr(CHOOSE v \in usato[chi[k]] : TRUE)]

\* C25: for each label of the candidate header every catalog station
\* contributes at most one value to the collected list, which is never longer
\* than the catalog; the value of a station is that of the last qualifying
\* reading with the label in the last record bearing the station's name, and
\* the cell is computed from these values alone.
C25_OneValuePerStationPerLabel ==
    pc = "write"
    => \A i \in 2..Len(nuova_intestazione) :
          LET label == nuova_intestazione[i]
              values == Values(label, dati_per_stazione, 1)
          IN  /\ Len(values) <= Len(stazioni_interessate)
              /\ Len(values) = Cardinality(Contribuenti(label, dati_per_stazione))
              /\ \A st \in StazioniSet : Cardinality(ValoreUsato(label, dati_meteo, st)) <= 1
              /\ values = Attesi(label, dati_meteo)
              /\ riga_dati[i] = CellaDi(Attesi(label, dati_meteo))

\* Two records named Misa, the first with 15.5, the second with 15.5 and then
\* 17.5 under the same label: the one value collected is 17.5.
C25_Witness ==
    /\ pc = "write"
    /\ dati_meteo =
         Array(<< Stazione("Misa", NoTime,
                           << Sensore(1, JStr(Temp), JFloat(155), JStr(GradiC)) >>),
                  Stazione("Misa", NoTime,
                           << Sensore(1, JStr(Temp), JFloat(155), JStr(GradiC)),
                              Sensore(1, JStr(TempPad), JFloat(175), JStr(GradiC)) >>) >>)
    /\ nuova_intestazione = << Data_Ora, TempC >>
    /\ Values(TempC, dati_per_stazione, 1) = << PyStr(JFloat(175)) >>
    /\ riga_dati[2] = <<"1", "7", ".", "5", "0">>

====
